---- MODULE Spec2Model ----
(***************************************************************************)
(* Model of the VibeVoice TTS plugin (src/index.ts):                       *)
(*   - the WAV demuxer, parseWavSampleRate and wavToPcm, over byte         *)
(*     buffers (sequences of 0..255, position i of the sequence is byte    *)
(*     offset i-1 of the Buffer);                                          *)
(*   - VibeVoiceProvider.synthesize and VibeVoiceProvider.healthCheck as   *)
(*     asynchronous operations whose fetch outcomes the environment picks. *)
(***************************************************************************)
EXTENDS Integers, Sequences, FiniteSets

(***************************************************************************)
(* Bounds of the model.                                                    *)
(***************************************************************************)
\* largest number of chunks that follow the 12-byte header of an input
MaxChunks == 3
\* largest number of bytes cut off the end of an input (truncated buffers)
MaxCut == 9

(***************************************************************************)
(* Program constants.                                                      *)
(***************************************************************************)
\* the fallback sample rate
DefaultSampleRate == 24000
\* where the chunk walk starts (after "RIFF" <size> "WAVE")
FirstChunkOffset == 12
\* the canonical header size the fallback assumes
FallbackPcmOffset == 44
\* the shortest buffer parseWavSampleRate reads
MinHeaderLength == 28
\* where parseWavSampleRate reads the sample rate
HeaderRateOffset == 24

\* "RIFF", "fmt " and "data" as the character codes of the JS string literals
RIFF == <<82, 73, 70, 70>>
FMT == <<102, 109, 116, 32>>
DATA == <<100, 97, 116, 97>>

Min(a, b) == IF a < b THEN a ELSE b
Max(a, b) == IF a > b THEN a ELSE b

(***************************************************************************)
(* Node's Buffer primitives, as the demuxer uses them.                     *)
(***************************************************************************)
\* buf.toString("ascii", start, end): the characters of bytes start..end-1
\* (end clamped to the length); decoding as "ascii" clears the high bit of
\* every byte.
toStringAscii(buf, start, end) ==
    LET e == Min(end, Len(buf))
        n == Max(e - start, 0)
    IN [i \in 1..n |-> buf[start + i] % 128]

\* buf.readUInt32LE(o) raises RangeError unless bytes o..o+3 are in the buffer
readInRange(buf, o) == o >= 0 /\ o + 4 <= Len(buf)

\* buf.readUInt32LE(o), for o in range: unsigned little-endian.  (JavaScript
\* numbers hold every such value and every offset exactly; the input buffers
\* below keep the values that are read under 2^31.)
readUInt32LE(buf, o) ==
    buf[o + 1] + 256 * buf[o + 2] + 65536 * buf[o + 3] + 16777216 * buf[o + 4]

\* buf.subarray(start, end): both ends clamped to the buffer, empty if end <= start
subarray(buf, start, end) ==
    LET s == Min(Max(start, 0), Len(buf))
        e == Min(Max(end, 0), Len(buf))
    IN IF e <= s THEN << >> ELSE SubSeq(buf, s + 1, e)

(***************************************************************************)
(* parseWavSampleRate                                                      *)
(***************************************************************************)
parseWavSampleRateOffByOne(buffer) ==
    IF Len(buffer) <= MinHeaderLength THEN DefaultSampleRate
    ELSE IF toStringAscii(buffer, 0, 4) # RIFF THEN DefaultSampleRate
    ELSE readUInt32LE(buffer, HeaderRateOffset)

parseWavSampleRate(buffer) ==
    IF Len(buffer) < MinHeaderLength THEN DefaultSampleRate
    ELSE IF toStringAscii(buffer, 0, 4) # RIFF THEN DefaultSampleRate
    ELSE readUInt32LE(buffer, HeaderRateOffset)

(***************************************************************************)
(* wavToPcm: the chunk walk, one loop iteration at a time.  A walk state   *)
(* is the position in the function (pc), its two locals and its result.    *)
(*   pc = "loop"      at the head of the while loop                        *)
(*   pc = "returned"  the function returned result (how = "data" from the  *)
(*                    loop, how = "fallback" after it)                     *)
(*   pc = "raised"    readUInt32LE threw RangeError out of wavToPcm        *)
(***************************************************************************)
NoResult == [pcm |-> << >>, sampleRate |-> 0]

WalkStart ==
    [pc |-> "loop", offset |-> FirstChunkOffset, sampleRate |-> DefaultSampleRate,
     how |-> "none", result |-> NoResult]

\* the loop condition
InLoop(buf, offset) == offset < Len(buf) - 8

chunkIdAt(buf, offset) == toStringAscii(buf, offset, offset + 4)
chunkSizeAt(buf, offset) == readUInt32LE(buf, offset + 4)

\* the "data" branch: the slice returned as pcm
\* a variant that yields nothing when the declared end is past the buffer
dataPayloadStrict(buf, offset, chunkSize) ==
    IF offset + 8 + chunkSize > Len(buf) THEN << >>
    ELSE subarray(buf, offset + 8, offset + 8 + chunkSize)

dataPayload(buf, offset, chunkSize) ==
    subarray(buf, offset + 8, offset + 8 + chunkSize)

\* the "data" branch: return the payload and the working sample rate at once
dataReturn(buf, s, chunkSize) ==
    [s EXCEPT !.pc = "returned", !.how = "data",
              !.result = [pcm |-> dataPayload(buf, s.offset, chunkSize),
                          sampleRate |-> s.sampleRate]]

\* one evaluation of the loop condition and, if it holds, of the loop body;
\* otherwise the fallback return
wavToPcmStep(buf, s) ==
    IF InLoop(buf, s.offset)
    THEN LET chunkId == chunkIdAt(buf, s.offset)
             chunkSize == chunkSizeAt(buf, s.offset)
         IN IF chunkId = FMT
            THEN IF readInRange(buf, s.offset + 12)
                 THEN [s EXCEPT !.sampleRate = readUInt32LE(buf, s.offset + 12),
                                !.offset = s.offset + 8 + chunkSize]
                 ELSE [s EXCEPT !.pc = "raised"]
            ELSE IF chunkId = DATA
            THEN dataReturn(buf, s, chunkSize)
            ELSE [s EXCEPT !.offset = s.offset + 8 + chunkSize]
    ELSE [s EXCEPT !.pc = "returned", !.how = "fallback",
                   !.result = [pcm |-> subarray(buf, FallbackPcmOffset, Len(buf)),
                               sampleRate |-> parseWavSampleRate(buf)]]

RECURSIVE wavToPcmFrom(_, _)
wavToPcmFrom(buf, s) ==
    IF s.pc # "loop" THEN s ELSE wavToPcmFrom(buf, wavToPcmStep(buf, s))

\* the whole call: the final walk state (returned with a result, or raised)
wavToPcm(wavBuffer) == wavToPcmFrom(wavBuffer, WalkStart)

(***************************************************************************)
(* Input buffers: a 12-byte header, up to MaxChunks chunks from a          *)
(* catalogue, and up to MaxCut bytes cut off the end.                      *)
(***************************************************************************)
\* n as 4 little-endian bytes
u32le(n) == <<n % 256, (n \div 256) % 256, (n \div 65536) % 256, (n \div 16777216) % 256>>

Chunk(id, declared, payload) == id \o u32le(declared) \o payload

\* the payload of a 16-byte PCM "fmt " chunk: format 1, mono, rate, byte rate,
\* block align 2, 16 bits
FmtPayload(r) == <<1, 0, 1, 0>> \o u32le(r) \o u32le(2 * r) \o <<2, 0, 16, 0>>

\* "RIFF" <size> "WAVE" in front of the chunks rest; the size field counts
\* the bytes after it: "WAVE" and the chunks
Header(rest) == RIFF \o u32le(4 + Len(rest)) \o <<87, 65, 86, 69>>

\* a WAV file made of the chunks rest
Wav(rest) == Header(rest) \o rest

\* headers that do not start with the bytes of "RIFF"
OtherHeaders(rest) ==
    { <<210, 73, 70, 70>> \o u32le(4 + Len(rest)) \o <<87, 65, 86, 69>>,   \* 'R' + 0x80, "IFF"
      <<82, 73, 70, 88>> \o u32le(4 + Len(rest)) \o <<87, 65, 86, 69>> }   \* "RIFX"

Catalogue ==
    { Chunk(FMT, 16, FmtPayload(44100)),
      Chunk(FMT, 0, << >>),                                   \* "fmt " with no payload
      Chunk(DATA, 4, <<0, 1, 2, 3>>),
      Chunk(DATA, 0, << >>),                                  \* empty payload
      Chunk(DATA, 200, <<4, 5, 6, 7>>),                       \* declared past the end
      Chunk(<<76, 73, 83, 84>>, 4, <<73, 78, 70, 79>>),        \* "LIST"
      Chunk(<<102, 109, 116, 0>>, 16, FmtPayload(44100)),      \* "fmt\0"
      Chunk(<<76, 73, 83, 84>>, 0, <<73, 78, 70, 79>>),        \* "LIST", declared too short
      Chunk(<<76, 73, 83, 84>>, 100, <<73, 78, 70, 79>>),      \* "LIST", declared past the end
      Chunk(<<70, 77, 84, 32>>, 16, FmtPayload(44100)),        \* "FMT "
      Chunk(<<230, 109, 116, 32>>, 16, FmtPayload(22050)),     \* 'f' + 0x80, "mt "
      Chunk(<<228, 97, 116, 97>>, 4, <<8, 9, 10, 11>>) }       \* 'd' + 0x80, "ata"

RECURSIVE Concat(_)
Concat(chunks) ==
    IF chunks = << >> THEN << >> ELSE Head(chunks) \o Concat(Tail(chunks))

ChunkLists == UNION { [1..n -> Catalogue] : n \in 0..MaxChunks }

\* buf without its last cut bytes
Truncate(buf, cut) == SubSeq(buf, 1, Max(Len(buf) - cut, 0))

\* whole buffers under every header, and truncated ones under the "RIFF" header
IsInput(buf) ==
    \E cs \in ChunkLists :
        \/ \E cut \in 0..MaxCut : buf = Truncate(Wav(Concat(cs)), cut)
        \/ \E h \in OtherHeaders(Concat(cs)) : buf = h \o Concat(cs)

(***************************************************************************)
(* State.                                                                  *)
(***************************************************************************)
VARIABLES
    wavBuffer,   \* the buffer the demuxer is applied to
    parsed,      \* what parseWavSampleRate(wavBuffer) returned (-1: not called yet)
    pc,          \* "parse", then the walk state's pc
    offset,      \* wavToPcm's local offset
    sampleRate,  \* wavToPcm's local sampleRate
    how,         \* which return statement wavToPcm left by
    result,      \* what wavToPcm returned
    sPc,         \* synthesize: position of the pending call
    sPosts,      \* synthesize: POSTs to /v1/audio/speech issued by the call
    sStatus,     \* synthesize: status of the response (0: none)
    sWavCalls,   \* synthesize: bodies the call passed to wavToPcm
    sResult,     \* synthesize: the value the call resolved to
    hPc,         \* healthCheck: position of the pending call
    hHealthGets, \* healthCheck: GETs of <serverUrl>/health issued by the call
    hRootGets,   \* healthCheck: GETs of <serverUrl> issued by the call
    hHealth,     \* healthCheck: outcome of the GET of /health
    hRoot,       \* healthCheck: outcome of the GET of the root URL
    hResult,     \* healthCheck: the boolean the call resolved to
    pluginCtx,   \* module variable pluginCtx: "null" or "ctx"
    provider,    \* module variable provider: "null" or "provider" (an object)
    cleanups,    \* module variable cleanups: what each closure unregisters
    schemaReg,   \* host: the "voice-vibevoice" config schema is registered
    ext,         \* host: the "tts" extension: "unregistered", or the value
                 \* registered, "provider" or "null"
    capReg,      \* host: the "tts" capability provider is registered
    iPc,         \* plugin.init: position of the call
    iValid,      \* plugin.init: validateConfig of the call did not throw
    iDid,        \* plugin.init: the host calls and cleanups.push the call made
    dPc,         \* plugin.shutdown: position of the call
    inits,       \* number of calls of plugin.init so far
    raced,       \* history: shutdown was called while the last init was suspended
    overlapped,  \* history: some call started while another was pending
    lastDone,    \* history: the call that completed last
    defaultUrl   \* DEFAULT_CONFIG.serverUrl, fixed when the module is loaded

wavVars == <<wavBuffer, parsed, pc, offset, sampleRate, how, result>>
synVars == <<sPc, sPosts, sStatus, sWavCalls, sResult>>
healthVars == <<hPc, hHealthGets, hRootGets, hHealth, hRoot, hResult>>
plugVars == <<pluginCtx, provider, cleanups, schemaReg, ext, capReg, iPc, iValid,
              iDid, dPc, inits, raced, overlapped, lastDone, defaultUrl>>
netVars == <<synVars, healthVars, plugVars>>
vars == <<wavVars, synVars, healthVars, plugVars>>

walk == [pc |-> pc, offset |-> offset, sampleRate |-> sampleRate, how |-> how,
         result |-> result]

SetWalk(s) ==
    /\ pc' = s.pc
    /\ offset' = s.offset
    /\ sampleRate' = s.sampleRate
    /\ how' = s.how
    /\ result' = s.result

\* the outcome of a fetch: not issued, awaited, rejected, or a response
NoFetch == [kind |-> "none", status |-> 0]
Pending == [kind |-> "pending", status |-> 0]
Failed == [kind |-> "failed", status |-> 0]
Response(status) == [kind |-> "response", status |-> status]

\* no call of synthesize or healthCheck is pending or was made
NetIdle ==
    /\ sPc = "idle" /\ sPosts = 0 /\ sStatus = 0 /\ sWavCalls = 0
    /\ sResult = [audio |-> << >>, format |-> "none", sampleRate |-> 0]
    /\ hPc = "idle" /\ hHealthGets = 0 /\ hRootGets = 0
    /\ hHealth = NoFetch /\ hRoot = NoFetch /\ hResult = FALSE

\* the values of process.env.VIBEVOICE_URL when the module is loaded
EnvUrls == {"unset", "", "http://env-host:9000"}

\* DEFAULT_CONFIG.serverUrl: process.env.VIBEVOICE_URL || "http://vibevoice-tts:8080"
DefaultServerUrl(env) ==
    IF env \in {"unset", ""} THEN "http://vibevoice-tts:8080" ELSE env

\* the module as loaded: nothing registered, no call of init or shutdown made
PlugIdle ==
    /\ pluginCtx = "null" /\ provider = "null" /\ cleanups = << >>
    /\ schemaReg = FALSE /\ ext = "unregistered" /\ capReg = FALSE
    /\ iPc = "idle" /\ iValid = FALSE /\ iDid = {}
    /\ dPc = "idle" /\ inits = 0
    /\ raced = FALSE /\ overlapped = FALSE /\ lastDone = "none"

\* the demuxer is not being called directly
WavIdle ==
    /\ wavBuffer = << >>
    /\ parsed = -1
    /\ pc = "idle"
    /\ offset = WalkStart.offset
    /\ sampleRate = WalkStart.sampleRate
    /\ how = WalkStart.how
    /\ result = WalkStart.result

InitWav ==
    /\ NetIdle
    /\ PlugIdle
    /\ defaultUrl = DefaultServerUrl("unset")
    /\ IsInput(wavBuffer)
    /\ parsed = -1
    /\ pc = "parse"
    /\ offset = WalkStart.offset
    /\ sampleRate = WalkStart.sampleRate
    /\ how = WalkStart.how
    /\ result = WalkStart.result

\* a call of parseWavSampleRate on the buffer; wavToPcm is called next
ParseCall ==
    /\ pc = "parse"
    /\ parsed' = parseWavSampleRate(wavBuffer)
    /\ pc' = "loop"
    /\ UNCHANGED <<wavBuffer, offset, sampleRate, how, result, netVars>>

\* loop iteration on a "fmt " chunk whose sample rate is inside the buffer
WalkFmt ==
    /\ pc = "loop" /\ InLoop(wavBuffer, offset)
    /\ chunkIdAt(wavBuffer, offset) = FMT
    /\ readInRange(wavBuffer, offset + 12)
    /\ SetWalk(wavToPcmStep(wavBuffer, walk))
    /\ UNCHANGED <<wavBuffer, parsed, netVars>>

\* loop iteration on a "fmt " chunk whose sample rate read is out of range
WalkFmtRaise ==
    /\ pc = "loop" /\ InLoop(wavBuffer, offset)
    /\ chunkIdAt(wavBuffer, offset) = FMT
    /\ ~readInRange(wavBuffer, offset + 12)
    /\ SetWalk(wavToPcmStep(wavBuffer, walk))
    /\ UNCHANGED <<wavBuffer, parsed, netVars>>

\* loop iteration on a "data" chunk: return its payload
WalkData ==
    /\ pc = "loop" /\ InLoop(wavBuffer, offset)
    /\ chunkIdAt(wavBuffer, offset) = DATA
    /\ SetWalk(wavToPcmStep(wavBuffer, walk))
    /\ UNCHANGED <<wavBuffer, parsed, netVars>>

\* loop iteration on any other chunk: skip it
WalkSkip ==
    /\ pc = "loop" /\ InLoop(wavBuffer, offset)
    /\ chunkIdAt(wavBuffer, offset) \notin {FMT, DATA}
    /\ SetWalk(wavToPcmStep(wavBuffer, walk))
    /\ UNCHANGED <<wavBuffer, parsed, netVars>>

\* the loop condition fails: the fallback return
WalkFallback ==
    /\ pc = "loop" /\ ~InLoop(wavBuffer, offset)
    /\ SetWalk(wavToPcmStep(wavBuffer, walk))
    /\ UNCHANGED <<wavBuffer, parsed, netVars>>

NextWav ==
    \/ ParseCall
    \/ WalkFmt
    \/ WalkFmtRaise
    \/ WalkData
    \/ WalkSkip
    \/ WalkFallback

SpecWav == InitWav /\ [][NextWav]_vars

(***************************************************************************)
(* VibeVoiceProvider.synthesize and VibeVoiceProvider.healthCheck.  Each   *)
(* await is a step: the environment decides whether a fetch rejects        *)
(* (unreachable server, timeout) or resolves to a response with a status,  *)
(* and which bytes the body of a response holds.                           *)
(***************************************************************************)
\* the response statuses the environment answers with
Statuses == {200, 204, 404, 500}

\* Response.ok: the status is in the range 200-299
ok(status) == status >= 200 /\ status <= 299

\* the response bodies the environment answers a POST with: whole WAV files,
\* one cut after 10 and one cut after 7 bytes of its "fmt " payload (on which
\* wavToPcm raises), and an empty body
Bodies ==
    { Wav(Chunk(FMT, 16, FmtPayload(44100)) \o Chunk(DATA, 4, <<0, 1, 2, 3>>)),
      Wav(Chunk(DATA, 4, <<0, 1, 2, 3>>) \o Chunk(FMT, 16, FmtPayload(44100))),
      Wav(Chunk(FMT, 16, FmtPayload(22050)) \o Chunk(<<76, 73, 83, 84>>, 4, <<73, 78, 70, 79>>)),
      SubSeq(Wav(Chunk(FMT, 16, FmtPayload(44100))), 1, 30),
      SubSeq(Wav(Chunk(FMT, 16, FmtPayload(44100))), 1, 27),
      << >> }

NoSynthesis == [audio |-> << >>, format |-> "none", sampleRate |-> 0]

\* synthesize is called (no call is pending): the request body is built and the
\* POST to <serverUrl>/v1/audio/speech is issued
SynthesizeCall ==
    /\ sPc \in {"idle", "resolved", "rejected"}
    /\ sPc' = "fetch"
    /\ sPosts' = 1
    /\ sStatus' = 0
    /\ sWavCalls' = 0
    /\ sResult' = NoSynthesis
    /\ UNCHANGED <<wavVars, healthVars, plugVars>>

\* await fetch(...) rejects: the rejection propagates out of synthesize
SynthesizeFetchFails ==
    /\ sPc = "fetch"
    /\ sPc' = "rejected"
    /\ UNCHANGED <<sPosts, sStatus, sWavCalls, sResult, wavVars, healthVars, plugVars>>

\* a variant of SynthesizeResponse that does not test response.ok
SynthesizeResponseUnchecked ==
    /\ sPc = "fetch"
    /\ \E status \in Statuses :
          /\ sStatus' = status
          /\ sPc' = "body"
    /\ UNCHANGED <<sPosts, sWavCalls, sResult, wavVars, healthVars, plugVars>>

\* await fetch(...) resolves to a response: if (!response.ok) the error text is
\* awaited, otherwise the body
SynthesizeResponse ==
    /\ sPc = "fetch"
    /\ \E status \in Statuses :
          /\ sStatus' = status
          /\ sPc' = IF ~ok(status) THEN "text" ELSE "body"
    /\ UNCHANGED <<sPosts, sWavCalls, sResult, wavVars, healthVars, plugVars>>

\* await response.text() settles: synthesize throws "VibeVoice TTS error: ..."
\* (or the rejection of text() propagates)
SynthesizeThrow ==
    /\ sPc = "text"
    /\ sPc' = "rejected"
    /\ UNCHANGED <<sPosts, sStatus, sWavCalls, sResult, wavVars, healthVars, plugVars>>

\* await response.arrayBuffer() rejects: the rejection propagates
SynthesizeBodyFails ==
    /\ sPc = "body"
    /\ sPc' = "rejected"
    /\ UNCHANGED <<sPosts, sStatus, sWavCalls, sResult, wavVars, healthVars, plugVars>>

\* await response.arrayBuffer() resolves: the bytes go through wavToPcm and the
\* result is returned (a RangeError out of wavToPcm rejects the call)
SynthesizeBody ==
    /\ sPc = "body"
    /\ \E body \in Bodies :
          LET w == wavToPcm(body)
          IN /\ sWavCalls' = sWavCalls + 1
             /\ IF w.pc = "raised"
                THEN /\ sPc' = "rejected"
                     /\ sResult' = sResult
                ELSE /\ sPc' = "resolved"
                     /\ sResult' = [audio |-> w.result.pcm, format |-> "pcm_s16le",
                                    sampleRate |-> w.result.sampleRate]
    /\ UNCHANGED <<sPosts, sStatus, wavVars, healthVars, plugVars>>

\* healthCheck is called (no call is pending): GET <serverUrl>/health is issued
HealthCheckCall ==
    /\ hPc \in {"idle", "resolved"}
    /\ hPc' = "health"
    /\ hHealthGets' = 1
    /\ hRootGets' = 0
    /\ hHealth' = Pending
    /\ hRoot' = NoFetch
    /\ hResult' = FALSE
    /\ UNCHANGED <<wavVars, synVars, plugVars>>

\* the GET of /health resolves to a response: return response.ok
HealthResponse ==
    /\ hPc = "health"
    /\ \E status \in Statuses :
          /\ hHealth' = Response(status)
          /\ hResult' = ok(status)
    /\ hPc' = "resolved"
    /\ UNCHANGED <<hHealthGets, hRootGets, hRoot, wavVars, synVars, plugVars>>

\* the GET of /health rejects: the catch block issues GET <serverUrl>
HealthFails ==
    /\ hPc = "health"
    /\ hHealth' = Failed
    /\ hPc' = "root"
    /\ hRootGets' = hRootGets + 1
    /\ hRoot' = Pending
    /\ UNCHANGED <<hHealthGets, hResult, wavVars, synVars, plugVars>>

\* the GET of the root URL resolves to a response: return response.status !== 404
RootResponse ==
    /\ hPc = "root"
    /\ \E status \in Statuses :
          /\ hRoot' = Response(status)
          /\ hResult' = (status # 404)
    /\ hPc' = "resolved"
    /\ UNCHANGED <<hHealthGets, hRootGets, hHealth, wavVars, synVars, plugVars>>

\* the GET of the root URL rejects too: return false
RootFails ==
    /\ hPc = "root"
    /\ hRoot' = Failed
    /\ hResult' = FALSE
    /\ hPc' = "resolved"
    /\ UNCHANGED <<hHealthGets, hRootGets, hHealth, wavVars, synVars, plugVars>>

InitNet == WavIdle /\ NetIdle /\ PlugIdle /\ defaultUrl = DefaultServerUrl("unset")

NextNet ==
    \/ SynthesizeCall
    \/ SynthesizeFetchFails
    \/ SynthesizeResponse
    \/ SynthesizeThrow
    \/ SynthesizeBodyFails
    \/ SynthesizeBody
    \/ HealthCheckCall
    \/ HealthResponse
    \/ HealthFails
    \/ RootResponse
    \/ RootFails

SpecNet == InitNet /\ [][NextNet]_vars

(***************************************************************************)
(* plugin.init and plugin.shutdown, with the module variables pluginCtx,   *)
(* provider and cleanups, and the host's registry behind ctx.  Each call   *)
(* runs up to its await in one step and resumes in another; one call of    *)
(* init and one call of shutdown may be pending at the same time.          *)
(***************************************************************************)
\* largest number of calls of plugin.init
MaxInits == 2

\* the serverUrl of the configuration the host hands to init: absent, empty
\* or set
ConfigUrls == {"absent", "", "http://localhost:8881"}

\* the constructor: { ...DEFAULT_CONFIG, ...config }
mergedServerUrl(default, given) == IF given = "absent" THEN default ELSE given

\* provider.validateConfig() throws "serverUrl is required"
validateConfigThrows(serverUrl) == serverUrl = ""

\* cleanups.reverse()
RECURSIVE Reverse(_)
Reverse(seq) ==
    IF seq = << >> THEN << >> ELSE Append(Reverse(Tail(seq)), Head(seq))

\* one cleanup closure run against the host registry h: pluginCtx?.unregister...
runCleanup(what, ctx, h) ==
    IF ctx = "null" THEN h
    ELSE IF what = "schema" THEN [h EXCEPT !.schemaReg = FALSE]
    ELSE [h EXCEPT !.ext = "unregistered"]

\* the for loop of shutdown over the closures of seq, in order
RECURSIVE runCleanups(_, _, _)
runCleanups(seq, ctx, h) ==
    IF seq = << >> THEN h
    ELSE runCleanups(Tail(seq), ctx, runCleanup(Head(seq), ctx, h))

\* init up to its await: the module variables are set, the config schema is
\* registered and its cleanup pushed; validateConfig either throws (caught and
\* logged, init returns) or healthCheck is called, which issues GET /health
InitStart ==
    /\ iPc \in {"idle", "done"}
    /\ inits < MaxInits
    /\ inits' = inits + 1
    /\ pluginCtx' = "ctx"
    /\ provider' = "provider"
    /\ schemaReg' = TRUE
    /\ cleanups' = Append(cleanups, "schema")
    /\ iDid' = {"registerConfigSchema", "pushSchemaCleanup"}
    /\ raced' = FALSE
    /\ overlapped' = (overlapped \/ dPc = "await")
    /\ \E given \in ConfigUrls :
          IF validateConfigThrows(mergedServerUrl(defaultUrl, given))
          THEN /\ iValid' = FALSE
               /\ iPc' = "done"
               /\ lastDone' = "init"
               /\ hPc' = "idle" /\ hHealthGets' = 0 /\ hHealth' = NoFetch
          ELSE /\ iValid' = TRUE
               /\ iPc' = "await"
               /\ lastDone' = lastDone
               /\ hPc' = "health" /\ hHealthGets' = 1 /\ hHealth' = Pending
    /\ hRootGets' = 0 /\ hRoot' = NoFetch /\ hResult' = FALSE
    /\ UNCHANGED <<ext, capReg, dPc, defaultUrl, wavVars, synVars>>

\* a variant of InitResume that registers whatever healthCheck resolved to
InitResumeUnchecked ==
    /\ iPc = "await"
    /\ hPc = "resolved"
    /\ ext' = provider
    /\ cleanups' = Append(cleanups, "ext")
    /\ IF provider = "null"
       THEN /\ capReg' = capReg
            /\ iDid' = iDid \cup {"registerExtension", "pushExtCleanup", "caught"}
       ELSE /\ capReg' = TRUE
            /\ iDid' = iDid \cup {"registerExtension", "pushExtCleanup",
                                  "registerCapabilityProvider"}
    /\ iPc' = "done"
    /\ lastDone' = "init"
    /\ UNCHANGED <<pluginCtx, provider, schemaReg, iValid, dPc, inits, raced,
                   overlapped, defaultUrl, wavVars, synVars, healthVars>>

\* init after its await, healthCheck having resolved: if healthy, the module
\* variable provider (as it is now) is registered as the "tts" extension, the
\* cleanup is pushed and the capability provider is registered, unless
\* provider is null by now: then provider.metadata throws TypeError, which the
\* catch logs; if not healthy, a warning naming provider.serverUrl is logged,
\* and with provider null by now that read throws TypeError too, which the
\* catch logs instead
InitResume ==
    /\ iPc = "await"
    /\ hPc = "resolved"
    /\ IF hResult
       THEN /\ ext' = provider
            /\ cleanups' = Append(cleanups, "ext")
            /\ IF provider = "null"
               THEN /\ capReg' = capReg
                    /\ iDid' = iDid \cup {"registerExtension", "pushExtCleanup", "caught"}
               ELSE /\ capReg' = TRUE
                    /\ iDid' = iDid \cup {"registerExtension", "pushExtCleanup",
                                          "registerCapabilityProvider"}
       ELSE /\ UNCHANGED <<ext, cleanups, capReg>>
            /\ iDid' = IF provider = "null" THEN iDid \cup {"caught"} ELSE iDid
    /\ iPc' = "done"
    /\ lastDone' = "init"
    /\ UNCHANGED <<pluginCtx, provider, schemaReg, iValid, dPc, inits, raced,
                   overlapped, defaultUrl, wavVars, synVars, healthVars>>

\* shutdown up to its await: the cleanups run in reverse order and the list is
\* emptied; with a provider, provider.shutdown() is awaited, without one
\* pluginCtx is set to null and shutdown returns
ShutdownStart ==
    /\ dPc \in {"idle", "done"}
    /\ LET h == runCleanups(Reverse(cleanups), pluginCtx,
                            [schemaReg |-> schemaReg, ext |-> ext])
       IN /\ schemaReg' = h.schemaReg
          /\ ext' = h.ext
    /\ cleanups' = << >>
    /\ raced' = (raced \/ iPc = "await")
    /\ overlapped' = (overlapped \/ iPc = "await")
    /\ IF provider # "null"
       THEN /\ dPc' = "await"
            /\ UNCHANGED <<pluginCtx, lastDone>>
       ELSE /\ dPc' = "done"
            /\ pluginCtx' = "null"
            /\ lastDone' = "shutdown"
    /\ UNCHANGED <<provider, capReg, iPc, iValid, iDid, inits, defaultUrl, wavVars,
                   synVars, healthVars>>

\* shutdown after its await: provider and pluginCtx are set to null
ShutdownFinish ==
    /\ dPc = "await"
    /\ provider' = "null"
    /\ pluginCtx' = "null"
    /\ dPc' = "done"
    /\ lastDone' = "shutdown"
    /\ UNCHANGED <<cleanups, schemaReg, ext, capReg, iPc, iValid, iDid, inits, raced,
                   overlapped, defaultUrl, wavVars, synVars, healthVars>>

InitPlugin ==
    /\ WavIdle /\ NetIdle /\ PlugIdle
    /\ \E env \in EnvUrls : defaultUrl = DefaultServerUrl(env)

NextPlugin ==
    \/ InitStart
    \/ InitResume
    \/ ShutdownStart
    \/ ShutdownFinish
    \/ HealthResponse
    \/ HealthFails
    \/ RootResponse
    \/ RootFails

SpecPlugin == InitPlugin /\ [][NextPlugin]_vars

(***************************************************************************)
(* Properties of the demuxer (checked under SpecWav).                      *)
(***************************************************************************)
\* the call of wavToPcm has ended, by a return or by an exception
Ended == pc \in {"returned", "raised"}

\* bytes o..o+3 of buf as an unsigned little-endian number
U32At(buf, o) ==
    buf[o + 1] + buf[o + 2] * 256 + buf[o + 3] * 256 * 256 + buf[o + 4] * 256 * 256 * 256

\* bytes from..to-1 of buf
Bytes(buf, from, to) == [i \in 1..(to - from) |-> buf[from + i]]

\* the cursor positions at which the loop body runs, in order, from walk state s
RECURSIVE Cursors(_, _)
Cursors(buf, s) ==
    IF s.pc # "loop" \/ ~InLoop(buf, s.offset) THEN << >>
    ELSE <<s.offset>> \o Cursors(buf, wavToPcmStep(buf, s))

\* C1: parseWavSampleRate and wavToPcm never raise, and every 4-byte read of
\* the chunk walk (the size at cursor+4, the sample rate of a "fmt " chunk at
\* cursor+12) lies inside the buffer.
C1_NeverRaises ==
    /\ pc # "raised"
    /\ (pc = "loop" /\ offset < Len(wavBuffer) - 8) =>
          /\ offset + 8 <= Len(wavBuffer)
          /\ (chunkIdAt(wavBuffer, offset) = FMT => offset + 16 <= Len(wavBuffer))

\* A well-formed WAV: "RIFF" <size> "WAVE", then chunks back to back with
\* 7-bit ids, every chunk inside the buffer, one "fmt " chunk (of at least 16
\* bytes) and after it a "data" chunk.  WellFormedFrom walks the chunks from
\* offset o and answers where the "fmt " and the "data" chunk start.
NotWellFormed == [wf |-> FALSE, fmtAt |-> 0, dataAt |-> 0]

RECURSIVE WellFormedFrom(_, _, _)
WellFormedFrom(buf, o, fmtAt) ==
    IF o + 8 > Len(buf) THEN NotWellFormed
    ELSE LET id == Bytes(buf, o, o + 4)
             size == U32At(buf, o + 4)
         IN IF o + 8 + size > Len(buf) \/ \E i \in 1..4 : id[i] >= 128
            THEN NotWellFormed
            ELSE IF id = DATA
            THEN [wf |-> fmtAt > 0, fmtAt |-> fmtAt, dataAt |-> o]
            ELSE IF id = FMT
            THEN IF fmtAt > 0 \/ size < 16 THEN NotWellFormed
                 ELSE WellFormedFrom(buf, o + 8 + size, o)
            ELSE WellFormedFrom(buf, o + 8 + size, fmtAt)

WellFormed(buf) ==
    IF Len(buf) >= 12 /\ Bytes(buf, 0, 4) = RIFF /\ Bytes(buf, 8, 12) = <<87, 65, 86, 69>>
    THEN WellFormedFrom(buf, 12, 0)
    ELSE NotWellFormed

\* C2: on a well-formed WAV, wavToPcm returns exactly the payload of the
\* "data" chunk as pcm, whatever its length, and the unsigned 32-bit
\* little-endian value at offset 12 of the "fmt " chunk as sampleRate.
C2_WellFormedExtracted ==
    LET w == WellFormed(wavBuffer)
    IN (Ended /\ w.wf) =>
          /\ pc = "returned"
          /\ result.pcm = Bytes(wavBuffer, w.dataAt + 8,
                                w.dataAt + 8 + U32At(wavBuffer, w.dataAt + 4))
          /\ result.sampleRate = U32At(wavBuffer, w.fmtAt + 12)

\* no four consecutive bytes of buf read as "data"
NoDataId(buf) ==
    \A i \in 0..(Len(buf) - 4) : toStringAscii(buf, i, i + 4) # DATA

\* C3: on a buffer longer than 44 bytes with no "data" chunk, wavToPcm returns
\* the bytes from offset 44 on as pcm and parseWavSampleRate(buffer) as
\* sampleRate.
C3_FallbackWithoutData ==
    (Ended /\ Len(wavBuffer) > 44 /\ NoDataId(wavBuffer)) =>
        /\ pc = "returned"
        /\ result.pcm = Bytes(wavBuffer, 44, Len(wavBuffer))
        /\ result.sampleRate = parsed

\* the walk has returned from a chunk whose id bytes are exactly "data", and
\* no chunk it met on the way has the id bytes "fmt "
DataBeforeFmt ==
    /\ pc = "returned" /\ how = "data"
    /\ Bytes(wavBuffer, offset, offset + 4) = <<100, 97, 116, 97>>
    /\ \A i \in 1..Len(Cursors(wavBuffer, WalkStart)) :
          LET c == Cursors(wavBuffer, WalkStart)[i]
          IN Bytes(wavBuffer, c, c + 4) # <<102, 109, 116, 32>>

\* C4: when the walk reaches a "data" chunk before any "fmt " chunk, wavToPcm
\* returns that chunk's payload with sampleRate 24000, and the bytes after the
\* data chunk do not matter: with any other bytes in their place the result is
\* the same.
C4_DataBeforeFmt ==
    DataBeforeFmt =>
        LET c == offset
            end == c + 8 + U32At(wavBuffer, c + 4)
        IN /\ result.sampleRate = 24000
           /\ result.pcm = Bytes(wavBuffer, c + 8, Min(end, Len(wavBuffer)))
           /\ end <= Len(wavBuffer) =>
                 \A tail \in { Chunk(FMT, 16, FmtPayload(22050)),
                               <<0, 0, 0, 0, 0, 0, 0, 0, 0>> } :
                    wavToPcm(Bytes(wavBuffer, 0, end) \o tail).result = result

\* C5: parseWavSampleRate returns 24000 for every buffer whose first four
\* bytes are not exactly 0x52 0x49 0x46 0x46.
C5_NotRiffGivesDefault ==
    (parsed # -1 /\ (Len(wavBuffer) < 4 \/ Bytes(wavBuffer, 0, 4) # <<82, 73, 70, 70>>)) =>
        parsed = 24000

\* C6: for a buffer of at least 28 bytes that starts with "RIFF",
\* parseWavSampleRate returns bytes 24..27 as an unsigned 32-bit little-endian
\* number; for a buffer shorter than 28 bytes it returns 24000.
C6_HeaderRate ==
    parsed # -1 =>
        /\ (Len(wavBuffer) >= 28 /\ Bytes(wavBuffer, 0, 4) = <<82, 73, 70, 70>>) =>
              parsed = U32At(wavBuffer, 24)
        /\ Len(wavBuffer) < 28 => parsed = 24000

C6_Witness ==
    /\ parsed # -1
    /\ Len(wavBuffer) = 28
    /\ Bytes(wavBuffer, 0, 4) = <<82, 73, 70, 70>>
    /\ parsed = 44100

\* C7: in the chunk walk, a chunk whose id bytes are neither exactly
\* 0x66 0x6D 0x74 0x20 nor exactly 0x64 0x61 0x74 0x61 is skipped by its
\* declared size: the working sample rate stays and the walk goes on.
C7_OtherIdsSkipped ==
    [][(/\ pc = "loop"
        /\ offset < Len(wavBuffer) - 8
        /\ Bytes(wavBuffer, offset, offset + 4) \notin {<<102, 109, 116, 32>>, <<100, 97, 116, 97>>})
       => (/\ pc' = "loop"
           /\ sampleRate' = sampleRate
           /\ offset' = offset + 8 + U32At(wavBuffer, offset + 4))]_vars

\* C8: when the walk returns from a "data" chunk at cursor c, pcm is the bytes
\* from c+8 up to the declared end or the end of the buffer, whichever comes
\* first (so all bytes from c+8 on when the declared size exceeds what is
\* left), and sampleRate is the working sample rate; the call does not raise.
C8_DataSliceClamped ==
    (Ended /\ how = "data") =>
        LET c == offset
            declared == U32At(wavBuffer, c + 4)
            left == Len(wavBuffer) - c - 8
        IN /\ pc = "returned"
           /\ Len(result.pcm) = Min(declared, left)
           /\ result.pcm = Bytes(wavBuffer, c + 8, c + 8 + Min(declared, left))
           /\ declared > left => result.pcm = Bytes(wavBuffer, c + 8, Len(wavBuffer))
           /\ result.sampleRate = sampleRate

C8_Witness ==
    /\ pc = "returned" /\ how = "data"
    /\ U32At(wavBuffer, offset + 4) > Len(wavBuffer) - offset - 8
    /\ Len(result.pcm) > 0
    /\ sampleRate # 24000

(***************************************************************************)
(* Properties of synthesize and healthCheck (checked under SpecNet).       *)
(***************************************************************************)
\* C9: synthesize resolves only after its single POST got a response with a
\* success status; when the POST fails or the status is not a success, the
\* call rejects (it is awaiting the error text or has rejected), has issued no
\* further request and has passed no body to wavToPcm.
C9_SynthesizeOnlyOnSuccess ==
    /\ sPosts <= 1
    /\ sPc = "resolved" => (sPosts = 1 /\ sStatus >= 200 /\ sStatus <= 299 /\ sWavCalls = 1)
    /\ (sPc \notin {"idle", "fetch"} /\ ~(sStatus >= 200 /\ sStatus <= 299)) =>
          /\ sPc \in {"text", "rejected"}
          /\ sPosts = 1
          /\ sWavCalls = 0

C9_Witness ==
    /\ sPc = "rejected"
    /\ sStatus = 500
    /\ sPosts = 1
    /\ sWavCalls = 0

\* C10: healthCheck resolves to a boolean: if the GET of /health got a
\* response, to whether it was successful, without requesting the root URL;
\* if that GET failed, the root URL is requested once and the result is true
\* exactly when its response is successful or has status 404; if both
\* requests failed, false.
C10_HealthCheckResult ==
    hPc = "resolved" =>
        /\ hResult \in BOOLEAN
        /\ hHealth.kind = "response" =>
              /\ hResult = (hHealth.status >= 200 /\ hHealth.status <= 299)
              /\ hRootGets = 0
        /\ hHealth.kind = "failed" =>
              /\ hRootGets = 1
              /\ hRoot.kind = "response" =>
                    hResult = ((hRoot.status >= 200 /\ hRoot.status <= 299) \/ hRoot.status = 404)
              /\ hRoot.kind = "failed" => hResult = FALSE

(***************************************************************************)
(* Properties of plugin.init and plugin.shutdown (checked under            *)
(* SpecPlugin).                                                            *)
(***************************************************************************)
\* no call of init or of shutdown is suspended at its await
Quiescent == iPc # "await" /\ dPc # "await"

\* C11: if shutdown ran while init was suspended awaiting healthCheck, then
\* once both have completed no "tts" extension is registered with the host,
\* and so no extension whose value is null.
C11_RacedShutdownLeavesNothing ==
    (raced /\ iPc = "done" /\ dPc = "done") => ext = "unregistered"

\* C12: after complete, non-overlapping calls of init and shutdown ending
\* with shutdown, the config schema, the "tts" extension and the "tts"
\* capability provider are not registered, the cleanup list is empty, and
\* provider and pluginCtx are null.
C12_ShutdownUndoesInit ==
    (~overlapped /\ Quiescent /\ lastDone = "shutdown") =>
        /\ schemaReg = FALSE
        /\ ext = "unregistered"
        /\ capReg = FALSE
        /\ cleanups = << >>
        /\ provider = "null"
        /\ pluginCtx = "null"

\* this step records a cleanup for the extension
ExtCleanupPushed ==
    /\ Len(cleanups') = Len(cleanups) + 1
    /\ cleanups'[Len(cleanups')] = "ext"

\* this step registers the "tts" extension or the "tts" capability provider
TtsRegistered ==
    \/ ext' # ext /\ ext' # "unregistered"
    \/ capReg' /\ ~capReg

\* this step completes a call of init
InitCompletes == iPc' = "done" /\ (inits' # inits \/ iPc = "await")

\* C13: init registers the "tts" extension and capability provider, and
\* records the extension's cleanup, only after validateConfig did not throw
\* and healthCheck resolved to true; a call of init in which validateConfig
\* throws or healthCheck resolves false completes having registered only the
\* config schema and recorded only its cleanup.
C13_RegistersOnlyWhenHealthy ==
    [][ /\ (TtsRegistered \/ ExtCleanupPushed) =>
              (iPc = "await" /\ iValid /\ hPc = "resolved" /\ hResult)
        /\ (InitCompletes /\ ~(iValid' /\ hResult')) =>
              /\ ~TtsRegistered
              /\ ~ExtCleanupPushed
              /\ "registerConfigSchema" \in iDid'
              /\ iDid' \cap {"registerExtension", "pushExtCleanup",
                             "registerCapabilityProvider"} = {}
      ]_vars

C13_Witness ==
    /\ iPc = "done" /\ iValid
    /\ hPc = "resolved" /\ ~hResult
    /\ schemaReg /\ ext = "unregistered" /\ ~capReg
    /\ cleanups = <<"schema">>

(***************************************************************************)
(* Termination of the chunk walk (checked under SpecWav).                  *)
(***************************************************************************)
\* the cursor starts at 12, every iteration adds 8 plus the declared size,
\* and there is at most one iteration per 8 bytes of buffer
WalkProgress ==
    LET cs == Cursors(wavBuffer, WalkStart)
    IN /\ offset >= FirstChunkOffset
       /\ cs # << >> => cs[1] = FirstChunkOffset
       /\ \A i \in 1..(Len(cs) - 1) :
             /\ cs[i + 1] = cs[i] + 8 + U32At(wavBuffer, cs[i] + 4)
             /\ cs[i + 1] >= cs[i] + 8
       /\ Len(cs) * 8 <= Len(wavBuffer)

\* C14: the chunk walk terminates: the cursor starts at 12, every iteration
\* advances it by 8 plus the declared chunk size, there is at most one
\* iteration per 8 bytes of buffer, and the walk ends by returning a "data"
\* payload or by reaching the fallback.
C14_WalkTerminates ==
    /\ WalkProgress
    /\ Ended => (pc = "returned" /\ how \in {"data", "fallback"})

====
